---- MODULE Spec2Model ----
(***************************************************************************)
(* A model of src/mypong.py: the policy-gradient training loop for Pong.   *)
(*                                                                         *)
(* Arrays are functions over 0-based index ranges, as in Python.  Real     *)
(* numbers are fixed-point integers: weights, activations, probabilities   *)
(* and log-probability gradients in units of 1/WScale, discounted returns  *)
(* exactly in units of 1/DiscScale, gradients in units of 1/GScale and     *)
(* expectation_g_squared exactly in units of 1/(GScale^2 * EDen).  The     *)
(* logistic function and the square root are replaced by integer           *)
(* approximations (sigmoid, Isqrt); sums, products by 0.99 and 0.01 and    *)
(* comparisons are exact.  The network and the frame are scaled down: the  *)
(* geometry keeps the shape of the source's (a cropped band of rows, every *)
(* second row and column, channel 0).                                      *)
(***************************************************************************)
EXTENDS Integers, Sequences, FiniteSets, TLC

VARIABLES
    pc,                           \* "step": line 106; "episode_end": line 124
    observation,                  \* the raw frame last returned by env.reset / env.step
    weights,                      \* {'1': H x D, '2': H}
    expectation_g_squared,
    g_dict,
    episode_hidden_layer_values,
    episode_observations,
    episode_gradient_log_ps,
    episode_rewards,
    prev_processed_observations,
    episode_number,
    reward_sum,
    running_reward,
    \* history variables, read by the properties only
    total_steps,                  \* environment steps taken so far
    episode_steps,                \* environment steps since the last env.reset
    frame_log,                    \* the raw frames of this episode, as the environment returned them
    frame_after,                  \* the array last passed to preprocess_observations, after the call
    reward_log,                   \* the total reward of every completed episode
    grad_log,                     \* the gradient of every completed episode
    update_log                    \* one record per call of update_weights

vars == <<pc, observation, weights, expectation_g_squared, g_dict,
          episode_hidden_layer_values, episode_observations,
          episode_gradient_log_ps, episode_rewards, prev_processed_observations,
          episode_number, reward_sum, running_reward,
          total_steps, episode_steps, frame_log, frame_after,
          reward_log, grad_log, update_log>>

(***************************************************************************)
(* Bounds of the model.  batch_size is 10, num_hidden_layer_neurons 200    *)
(* and the frame 210 x 160 x 3 with the band 35:195 in the source; the     *)
(* model keeps their roles at a size TLC can enumerate.                    *)
(***************************************************************************)
MaxTotalSteps == 5
MaxSteps == 3
batch_size == 2
num_hidden_layer_neurons == 2
DownRows == 1
DownCols == 2
CropTop == 1
BottomMargin == 1
FrameChans == 2

\* Program constants.
BackgroundA == 144
BackgroundB == 109
UP == 2
DOWN == 3
gamma_num == 99
decay_num == 99
Percent == 100

\* Fixed-point resolutions.
WScale == 10 ^ 4
GScale == 10
DiscScale == Percent ^ MaxSteps
MaxUpdates == MaxTotalSteps \div batch_size
EDen == Percent ^ MaxUpdates

CropBottom == CropTop + 2 * DownRows
FrameRows == CropBottom + BottomMargin
FrameCols == 2 * DownCols
input_dimensions == DownRows * DownCols

H == 0 .. num_hidden_layer_neurons - 1
D == 0 .. input_dimensions - 1

None == [is_none |-> TRUE]
Some(v) == [is_none |-> FALSE, value |-> v]

\* The array f as a stored value: TLC evaluates a function expression anew at every
\* application until it is stored.
Array(f) == f @@ f

Abs(x) == IF x < 0 THEN -x ELSE x

RECURSIVE IsqrtBetween(_, _, _)
IsqrtBetween(n, lo, hi) ==
    IF lo >= hi THEN lo
    ELSE LET mid == (lo + hi + 1) \div 2
         IN  IF mid * mid <= n THEN IsqrtBetween(n, mid, hi)
                               ELSE IsqrtBetween(n, lo, mid - 1)

\* np.sqrt on a non-negative fixed-point number: the integer square root.
Isqrt(n) == IsqrtBetween(n, 0, IF n < 46340 THEN n ELSE 46340)

RECURSIVE SumTo(_, _)
\* f[0] + ... + f[n-1]
SumTo(f, n) == IF n = 0 THEN 0 ELSE SumTo(f, n - 1) + f[n - 1]

(***************************************************************************)
(* Frames.  The environment's frames are drawn from two pictures: a ball   *)
(* on the 144 background and a paddle on the 109 background.               *)
(***************************************************************************)
FrameA ==
    [r \in 0 .. FrameRows - 1 |-> [c \in 0 .. FrameCols - 1 |-> [ch \in 0 .. FrameChans - 1 |->
        IF r = CropTop /\ c = 0 THEN 236 ELSE BackgroundA]]]

FrameB ==
    [r \in 0 .. FrameRows - 1 |-> [c \in 0 .. FrameCols - 1 |-> [ch \in 0 .. FrameChans - 1 |->
        IF r = CropTop /\ c = FrameCols - 2 THEN 92 ELSE BackgroundB]]]

Frames == {FrameA, FrameB}

(***************************************************************************)
(* numpy basic slicing returns views.  A view is the rows, columns and     *)
(* channels of the base array it shows; a write through a view writes the  *)
(* base array.                                                             *)
(***************************************************************************)
WholeView == [rows  |-> [i \in 0 .. FrameRows - 1 |-> i],
              cols  |-> [j \in 0 .. FrameCols - 1 |-> j],
              chans |-> [k \in 0 .. FrameChans - 1 |-> k]]

NRows(view) == Cardinality(DOMAIN view.rows)
NCols(view) == Cardinality(DOMAIN view.cols)

\* input_observation[35:195]
Crop(view) ==
    [view EXCEPT !.rows = [i \in 0 .. (CropBottom - CropTop) - 1 |-> view.rows[CropTop + i]]]

\* image[::2, ::2, :]
downsample(view) ==
    [view EXCEPT !.rows = [i \in 0 .. ((NRows(view) + 1) \div 2) - 1 |-> view.rows[2 * i]],
                 !.cols = [j \in 0 .. ((NCols(view) + 1) \div 2) - 1 |-> view.cols[2 * j]]]

\* image[:, :, 0]
remove_color(view) == [view EXCEPT !.chans = [k \in {0} |-> view.chans[0]]]

\* Whether base element (r, c, ch) is shown by the view.
InView(view, r, c, ch) ==
    /\ \E i \in DOMAIN view.rows : view.rows[i] = r
    /\ \E j \in DOMAIN view.cols : view.cols[j] = c
    /\ \E k \in DOMAIN view.chans : view.chans[k] = ch

\* image[image == value] = 0, written through the view.
MaskedZero(base, view, value) ==
    [r \in DOMAIN base |-> [c \in DOMAIN base[r] |-> [ch \in DOMAIN base[r][c] |->
        IF InView(view, r, c, ch) /\ base[r][c][ch] = value THEN 0 ELSE base[r][c][ch]]]]

remove_background(base, view) ==
    MaskedZero(MaskedZero(base, view, BackgroundA), view, BackgroundB)

\* processed_observation[processed_observation != 0] = 1, written through the view.
Normalize(base, view) ==
    [r \in DOMAIN base |-> [c \in DOMAIN base[r] |-> [ch \in DOMAIN base[r][c] |->
        IF InView(view, r, c, ch) /\ base[r][c][ch] # 0 THEN 1 ELSE base[r][c][ch]]]]

\* .astype(np.float32).ravel(): a fresh vector, the view read in row-major order.
Ravel(base, view) ==
    Array([d \in 0 .. NRows(view) * NCols(view) - 1 |->
        base[view.rows[d \div NCols(view)]][view.cols[d % NCols(view)]][view.chans[0]]])

\* The view lines 17-19 take of the frame.
ProcessedView == remove_color(downsample(Crop(WholeView)))

(***************************************************************************)
(* preprocess_observations.  Returns the two results of the source and,    *)
(* third, the contents of the array it was passed as they are on return.   *)
(***************************************************************************)
preprocess_observations(input_observation, prev_processed_observation, input_dims) ==
    LET view      == ProcessedView
        base1     == remove_background(input_observation, view)
        base2     == Normalize(base1, view)
        processed == Ravel(base2, view)
    IN  [input_observation |->
             IF ~prev_processed_observation.is_none
             THEN Array([d \in DOMAIN processed |->
                            processed[d] - prev_processed_observation.value[d]])
             ELSE Array([d \in 0 .. input_dims - 1 |-> 0]),
         prev_processed_observations |-> processed,
         frame |-> base2]

(***************************************************************************)
(* The network.                                                            *)
(***************************************************************************)
\* 1 / (1 + exp(-x)), approximated by 1/2 + x / (2 (1 + |x|)): strictly between 0 and 1.
sigmoid(x) == WScale \div 2 + (x * (WScale \div 2)) \div (WScale + Abs(x))

\* np.maximum(0, vector)
relu(vector) == Array([i \in DOMAIN vector |-> IF vector[i] > 0 THEN vector[i] ELSE 0])

\* np.dot of two vectors over the same indices 0 .. n-1
dot(a, b) == SumTo([i \in DOMAIN a |-> a[i] * b[i]], Cardinality(DOMAIN a))

apply_neural_nets(observation_matrix, w) ==
    LET hidden_layer_values == relu([h \in H |-> dot(w["1"][h], observation_matrix)])
        output_layer_values == dot(hidden_layer_values, w["2"]) \div WScale
    IN  [hidden_layer_values |-> hidden_layer_values,
         up_probability |-> sigmoid(output_layer_values)]

\* np.random.uniform() is u, in units of 1/WScale
choose_action(u, probability) == IF u < probability THEN UP ELSE DOWN

(***************************************************************************)
(* Reward shaping.  An episode's buffers are the sequences 1 .. T (the     *)
(* source's lists, stacked at the episode's end).                          *)
(***************************************************************************)
\* A discount loop that never resets its running sum.
ResetAtBoundary_Never(running_add, reward) == running_add

\* lines 68-69
ResetAtBoundary(running_add, reward) == IF reward # 0 THEN 0 ELSE running_add

RECURSIVE DiscountLoop(_, _, _, _)
\* The loop of discount_rewards at t (1-based), with discounted_rewards so far.
DiscountLoop(rewards, t, running_add, discounted_rewards) ==
    IF t = 0 THEN discounted_rewards
    ELSE LET reset == ResetAtBoundary(running_add, rewards[t])
             added == (reset \div Percent) * gamma_num + rewards[t] * DiscScale
         IN  DiscountLoop(rewards, t - 1, added, [discounted_rewards EXCEPT ![t] = added])

\* The discounted rewards, exactly, in units of 1/DiscScale.
discount_rewards(rewards) ==
    DiscountLoop(rewards, Len(rewards), 0, [t \in 1 .. Len(rewards) |-> 0])

NScale == 10 ^ 3

\* np.mean, np.std and the 1e-5 of line 77, in units of 1/NScale (the 1e-5 in 1/(100 NScale))
discount_with_rewards(gradient_log_p, rewards) ==
    LET T          == Len(rewards)
        discounted == discount_rewards(rewards)
        mean       == SumTo([i \in 0 .. T - 1 |-> discounted[i + 1]], T) \div T
        centred    == Array([t \in 1 .. T |-> (discounted[t] - mean) \div (DiscScale \div NScale)])
        variance   == SumTo([i \in 0 .. T - 1 |-> centred[i + 1] * centred[i + 1]], T) \div T
        std        == Isqrt(variance)
        normalized == Array([t \in 1 .. T |-> (centred[t] * NScale * 100) \div (std * 100 + 1)])
    IN  Array([t \in 1 .. T |-> (gradient_log_p[t] * normalized[t]) \div NScale])

(***************************************************************************)
(* The backward pass.                                                      *)
(***************************************************************************)
\* np.outer(delta_L, weights['2']), exactly, in units of 1/WScale^2
outer(delta_L, w2) ==
    Array([t \in DOMAIN delta_L |-> Array([h \in DOMAIN w2 |-> delta_L[t] * w2[h]])])

\* lines 51-52: delta_l2 as compute_gradient uses it
DeltaL2(gradient_log_p, w) ==
    LET delta_l2 == outer(gradient_log_p, w["2"])
    IN  Array([t \in DOMAIN delta_l2 |-> relu(delta_l2[t])])

\* A product of two 1/WScale numbers, summed, as a gradient in units of 1/GScale (rounded).
ToGrad(x) == (x + (WScale * WScale) \div (2 * GScale)) \div ((WScale * WScale) \div GScale)

compute_gradient(gradient_log_p, hidden_layer_values, observation_values, w) ==
    LET T        == Len(gradient_log_p)
        delta_L  == gradient_log_p
        dC_dw2   == Array([h \in H |->
                        ToGrad(SumTo([i \in 0 .. T - 1 |->
                                   hidden_layer_values[i + 1][h] * delta_L[i + 1]], T))])
        delta_l2 == DeltaL2(delta_L, w)
        dC_dw1   == Array([h \in H |-> Array([d \in D |->
                        ToGrad(SumTo([i \in 0 .. T - 1 |->
                                   delta_l2[i + 1][h] * observation_values[i + 1][d]], T))])])
    IN  ("1" :> dC_dw1) @@ ("2" :> dC_dw2)

(***************************************************************************)
(* The parameter update.                                                   *)
(***************************************************************************)
\* Op applied to every element of two {'1': H x D, '2': H} dictionaries
Zip(Op(_, _), a, b) ==
    ("1" :> Array([h \in H |-> Array([d \in D |-> Op(a["1"][h][d], b["1"][h][d])])])) @@
    ("2" :> Array([h \in H |-> Op(a["2"][h], b["2"][h])]))

Const(x, y) == 0

\* np.zeros_like(v) for every layer: line 62, lines 96-97
zeros_like(w) == Zip(Const, w, w)

Plus(x, y) == x + y

\* An accumulation that overwrites: g_dict[layer_name] = gradient[layer_name]
Accumulate_Overwrite(g, gradient) == gradient

\* lines 134-135: g_dict[layer_name] += gradient[layer_name]
Accumulate(g, gradient) == Zip(Plus, g, gradient)

\* g**2 in the units of expectation_g_squared
GSquared(g) == g * g * EDen

\* An update that forgets the decayed history: expectation_g_squared = g**2
UpdateExpectation_NoDecay(e, g) == GSquared(g)

\* line 60, exactly: decay_rate * e + (1 - decay_rate) * g**2
UpdateExpectation(e, g) ==
    (e \div Percent) * decay_num + ((g * g) * (EDen \div Percent)) * (Percent - decay_num)

\* learning_rate = 1e-4 (line 89) and epsilon = 1e-5 (line 57), as 1 / learning_rate_inv
\* and 1 / epsilon_inv
learning_rate_inv == 10 ^ 4
epsilon_inv == 10 ^ 5

\* The resolution of the square root of line 61.
SqrtScale == 10 ^ 2

\* line 61: (learning_rate * g) / np.sqrt(e + epsilon), in units of 1/WScale: numerator
\* and denominator are both multiplied by GScale * SqrtScale.
UpdateStep(g, e) ==
    (g * SqrtScale * (WScale \div learning_rate_inv)) \div
        Isqrt((e \div (EDen \div Percent)) * ((SqrtScale * SqrtScale) \div Percent)
              + (SqrtScale * SqrtScale * GScale * GScale) \div epsilon_inv)

\* An update that leaves the batch gradient buffer as it is.
ResetGradient_Keep(g) == g

\* line 62
ResetGradient(g) == zeros_like(g)

update_weights(w, e, g) ==
    LET e1 == Zip(UpdateExpectation, e, g)
        step == Zip(UpdateStep, g, e1)
    IN  [weights |-> Zip(Plus, w, step),
         expectation_g_squared |-> e1,
         g_dict |-> ResetGradient(g)]

\* An update at the end of every episode.
BatchBoundary_EveryEpisode(n) == TRUE

\* line 137
BatchBoundary(n) == n % batch_size = 0

(***************************************************************************)
(* The environment and the random source.                                  *)
(***************************************************************************)
\* What env.step returns: the ball frame and no point, the paddle frame and a point won with
\* the episode going on, or the end of the episode on a lost or a won point.
EnvOutcomes ==
    {[frame |-> FrameA, reward |-> 0, done |-> FALSE],
     [frame |-> FrameB, reward |-> 1, done |-> FALSE],
     [frame |-> FrameA, reward |-> -1, done |-> TRUE],
     [frame |-> FrameA, reward |-> 1, done |-> TRUE]}

\* np.random.uniform(), in units of 1/WScale
UniformDraws == {WScale \div 4, 3 * (WScale \div 4)}

\* lines 91-94: one draw of the random initial weights
InitWeights ==
    ("1" :> [h \in H |-> [d \in D |->
                (IF (h + d) % 2 = 0 THEN 1 ELSE -1) * (3000 + 1000 * ((h + 2 * d) % 3))]]) @@
    ("2" :> [h \in H |-> (IF h % 2 = 0 THEN 1 ELSE -1) * (7000 - 1000 * (h % 3))])

\* line 146, with running_reward in units of 1/WScale
RunningMean(running, total) ==
    IF running.is_none THEN Some(total * WScale)
    ELSE Some((running.value * 99 + total * WScale) \div 100)

\* line 142
ResetRewardSum(total) == 0

\* Buffers that are not cleared at the end of the episode.
ClearBuffer_Keep(buffer) == buffer

\* line 143
ClearBuffer(buffer) == <<>>

\* A previous frame that outlives its episode.
ClearPrevious_Keep(prev) == prev

\* line 145
ClearPrevious(prev) == None

Init ==
    /\ pc = "step"
    /\ observation \in Frames
    /\ weights = InitWeights
    /\ expectation_g_squared = zeros_like(InitWeights)
    /\ g_dict = zeros_like(InitWeights)
    /\ episode_hidden_layer_values = <<>>
    /\ episode_observations = <<>>
    /\ episode_gradient_log_ps = <<>>
    /\ episode_rewards = <<>>
    /\ prev_processed_observations = None
    /\ episode_number = 0
    /\ reward_sum = 0
    /\ running_reward = None
    /\ total_steps = 0
    /\ episode_steps = 0
    /\ frame_log = <<>>
    /\ frame_after = observation
    /\ reward_log = <<>>
    /\ grad_log = <<>>
    /\ update_log = <<>>

\* lines 106-121: one environment step.  (\E x \in {e} names the value of e.)
Step ==
    /\ pc = "step"
    /\ total_steps < MaxTotalSteps
    /\ \E pre \in {preprocess_observations(observation, prev_processed_observations,
                                           input_dimensions)} :
       \E nn \in {apply_neural_nets(pre.input_observation, weights)} :
           /\ prev_processed_observations' = Some(pre.prev_processed_observations)
           /\ episode_observations' = Append(episode_observations, pre.input_observation)
           /\ episode_hidden_layer_values' =
                  Append(episode_hidden_layer_values, nn.hidden_layer_values)
           /\ frame_after' = pre.frame
           /\ \E u \in UniformDraws :
                LET action == choose_action(u, nn.up_probability)
                    fake_label == IF action = UP THEN 1 ELSE 0
                    loss_function_gradient == fake_label * WScale - nn.up_probability
                IN  episode_gradient_log_ps' =
                        Append(episode_gradient_log_ps, loss_function_gradient)
    /\ \E out \in EnvOutcomes :
           /\ episode_steps + 1 = MaxSteps => out.done
           /\ observation' = out.frame
           /\ reward_sum' = reward_sum + out.reward
           /\ episode_rewards' = Append(episode_rewards, out.reward)
           /\ pc' = IF out.done THEN "episode_end" ELSE "step"
    /\ frame_log' = Append(frame_log, observation)
    /\ total_steps' = total_steps + 1
    /\ episode_steps' = episode_steps + 1
    /\ UNCHANGED <<weights, expectation_g_squared, g_dict, episode_number, running_reward,
                   reward_log, grad_log, update_log>>

\* lines 123-146: the end of an episode
EpisodeEnd ==
    /\ pc = "episode_end"
    /\ \E number \in {episode_number + 1} :
       \E shaped \in {discount_with_rewards(episode_gradient_log_ps, episode_rewards)} :
       \E gradient \in {compute_gradient(shaped, episode_hidden_layer_values,
                                         episode_observations, weights)} :
       \E summed \in {Accumulate(g_dict, gradient)} :
       \E updated \in {IF BatchBoundary(number)
                       THEN update_weights(weights, expectation_g_squared, summed)
                       ELSE [weights |-> weights,
                             expectation_g_squared |-> expectation_g_squared,
                             g_dict |-> summed]} :
       \E cleared \in {ResetRewardSum(reward_sum)} :
           /\ episode_number' = number
           /\ weights' = updated.weights
           /\ expectation_g_squared' = updated.expectation_g_squared
           /\ g_dict' = updated.g_dict
           /\ reward_sum' = cleared
           /\ running_reward' = RunningMean(running_reward, cleared)
           /\ reward_log' = Append(reward_log, SumTo([i \in 0 .. Len(episode_rewards) - 1 |->
                                                         episode_rewards[i + 1]],
                                                     Len(episode_rewards)))
           /\ grad_log' = Append(grad_log, gradient)
           /\ update_log' = IF BatchBoundary(number)
                            THEN Append(update_log, [episode |-> number,
                                                     g |-> summed,
                                                     before |-> expectation_g_squared,
                                                     after |-> updated.expectation_g_squared])
                            ELSE update_log
    /\ episode_hidden_layer_values' = ClearBuffer(episode_hidden_layer_values)
    /\ episode_observations' = ClearBuffer(episode_observations)
    /\ episode_gradient_log_ps' = ClearBuffer(episode_gradient_log_ps)
    /\ episode_rewards' = ClearBuffer(episode_rewards)
    /\ observation' \in Frames
    /\ prev_processed_observations' = ClearPrevious(prev_processed_observations)
    /\ pc' = "step"
    /\ episode_steps' = 0
    /\ frame_log' = <<>>
    /\ UNCHANGED <<total_steps, frame_after>>

Next == Step \/ EpisodeEnd

Spec == Init /\ [][Next]_vars

(***************************************************************************)
(* Properties.                                                             *)
(***************************************************************************)
ZeroLayers == zeros_like(InitWeights)

\* Every element of a {'1': H x D, '2': H} dictionary
ElementsOf(a) == {a["1"][h][d] : h \in H, d \in D} \cup {a["2"][h] : h \in H}

\* <<a element, b element, c element>> for every weight element
ElementTriples(a, b, c) ==
    {<<a["1"][h][d], b["1"][h][d], c["1"][h][d]>> : h \in H, d \in D} \cup
    {<<a["2"][h], b["2"][h], c["2"][h]>> : h \in H}

RECURSIVE SumGrads(_, _, _)
\* log[from] + ... + log[to], layer by layer
SumGrads(log, from, to) ==
    IF to < from THEN ZeroLayers ELSE Zip(Plus, SumGrads(log, from, to - 1), log[to])

Last(seq) == seq[Len(seq)]

EpisodeTotal == SumTo([i \in 0 .. Len(episode_rewards) - 1 |-> episode_rewards[i + 1]],
                      Len(episode_rewards))

\* The binarized frame of the specification: band, every second row and column, channel 0,
\* the two background values and 0 to 0, everything else to 1.
Binarized(frame) ==
    [d \in D |->
        LET v == frame[CropTop + 2 * (d \div DownCols)][2 * (d % DownCols)][0]
        IN  IF v = 0 \/ v = BackgroundA \/ v = BackgroundB THEN 0 ELSE 1]

ZeroObservation == [d \in D |-> 0]

\* C1: running_reward after the first episode is that episode's total reward, and after
\* every later episode it is 0.99 times its previous value plus 0.01 times the episode's
\* total reward.
C1_RunningRewardIsMovingAverage ==
    [][pc = "episode_end" => running_reward' = RunningMean(running_reward, EpisodeTotal)]_vars

\* C2: the weights change only at batch boundaries: a step and an episode end whose
\* episode count is no multiple of batch_size leave them (and the number of applied
\* updates) unchanged, an episode end whose count is a multiple applies one update, and
\* after N episodes floor(N / batch_size) updates have been applied.
C2_WeightsChangeOnlyAtBatchBoundaries ==
    [][/\ Len(update_log) = episode_number \div batch_size
       /\ Len(update_log') = episode_number' \div batch_size
       /\ pc = "step" => weights' = weights /\ update_log' = update_log
       /\ pc = "episode_end" /\ (episode_number + 1) % batch_size # 0
             => weights' = weights /\ update_log' = update_log
       /\ pc = "episode_end" /\ (episode_number + 1) % batch_size = 0
             => /\ Len(update_log') = Len(update_log) + 1
                /\ \E applied \in {Last(update_log')} :
                     \E step \in {Zip(UpdateStep, applied.g, applied.after)} :
                         weights' = Zip(Plus, weights, step)]_vars

\* An update has changed the weights, and the episode after it has ended without one.
C2_Witness ==
    /\ episode_number = batch_size + 1
    /\ Len(update_log) = 1
    /\ weights # InitWeights

\* C3: immediately after every applied update, every element of g_dict is zero.
C3_GradientBufferZeroAfterUpdate ==
    [][Len(update_log') > Len(update_log) => ElementsOf(g_dict') = {0}]_vars

\* An update has just been applied to a nonzero accumulated gradient.
C3_Witness ==
    /\ update_log # <<>>
    /\ episode_number = Last(update_log).episode
    /\ ElementsOf(Last(update_log).g) # {0}
    /\ ElementsOf(g_dict) = {0}

\* C4: g_dict is the sum of the gradients of exactly the episodes completed since the
\* last applied update; the k-th update is applied at episode k * batch_size to the sum
\* of the gradients of episodes (k-1) * batch_size + 1 .. k * batch_size.
C4_GradientBufferIsSumSinceLastUpdate ==
    /\ g_dict = SumGrads(grad_log,
                         (IF update_log = <<>> THEN 0 ELSE Last(update_log).episode) + 1,
                         episode_number)
    /\ Len(grad_log) = episode_number
    /\ \A k \in DOMAIN update_log :
          /\ update_log[k].episode = k * batch_size
          /\ update_log[k].g = SumGrads(grad_log, (k - 1) * batch_size + 1, k * batch_size)

\* An update has used the sum of two nonzero episode gradients.
C4_Witness ==
    /\ update_log # <<>>
    /\ batch_size >= 2
    /\ ElementsOf(grad_log[1]) # {0}
    /\ ElementsOf(grad_log[2]) # {0}

\* C5: preprocess_observations leaves every pixel of the raw frame it is passed unchanged.
C5_RawFrameUnchanged ==
    frame_log # <<>> => frame_after = Last(frame_log)

\* C6: the observation of the first step of every episode is the zero vector; the
\* observation of every other step is binarized(current frame) - binarized(previous
\* frame of the same episode), so the zero vector for two identical frames; the previous
\* frame kept is that of the same episode, and none is kept across an episode end.
C6_ObservationIsFrameDifference ==
    /\ Len(episode_observations) = Len(frame_log)
    /\ \A t \in DOMAIN episode_observations :
          /\ t = 1 => episode_observations[t] = ZeroObservation
          /\ t > 1 => episode_observations[t] =
                         [d \in D |-> Binarized(frame_log[t])[d] - Binarized(frame_log[t - 1])[d]]
          /\ t > 1 /\ frame_log[t] = frame_log[t - 1]
                => episode_observations[t] = ZeroObservation
    /\ prev_processed_observations =
          IF frame_log = <<>> THEN None ELSE Some(Binarized(Last(frame_log)))
    /\ episode_steps = 0 => frame_log = <<>>

\* In a later episode, a step after the first has seen a frame that differs from the one before.
C6_Witness ==
    /\ episode_number >= 1
    /\ Len(episode_observations) = 2
    /\ episode_observations[1] = ZeroObservation
    /\ episode_observations[2] # ZeroObservation

\* C7: discounted[t] is reward[t] where reward[t] is nonzero and gamma * discounted[t+1]
\* where it is zero (0 at the last step); rewards [0,0,1] give [0.9801, 0.99, 1.0].
C7_DiscountResetsAtNonzeroReward ==
    LET discounted == discount_rewards(episode_rewards)
        T == Len(episode_rewards)
    IN  /\ \A t \in 1 .. T :
              /\ episode_rewards[t] # 0 => discounted[t] = episode_rewards[t] * DiscScale
              /\ episode_rewards[t] = 0 /\ t = T => discounted[t] = 0
              /\ episode_rewards[t] = 0 /\ t < T
                    => /\ discounted[t + 1] % Percent = 0
                       /\ discounted[t] = (discounted[t + 1] \div Percent) * gamma_num
        /\ episode_rewards = <<0, 0, 1>>
              => discounted = <<9801 * (DiscScale \div 10000), 9900 * (DiscScale \div 10000),
                                DiscScale>>

\* An episode has ended with a point scored in its middle and zero rewards after it.
C7_Witness ==
    /\ pc = "episode_end"
    /\ episode_rewards = <<1, 0, 1>>

\* C8: entry (t, h) of delta_hidden is zero exactly where the forward hidden activation
\* of step t, neuron h was <= 0 and is delta_output[t] * W2[h] elsewhere.
C8_DeltaHiddenGatedByHiddenActivation ==
    pc = "episode_end" =>
        LET delta_output == discount_with_rewards(episode_gradient_log_ps, episode_rewards)
            delta_hidden == DeltaL2(delta_output, weights)
        IN  \A t \in DOMAIN delta_output : \A h \in H :
                delta_hidden[t][h] =
                    IF episode_hidden_layer_values[t][h] <= 0 THEN 0
                    ELSE delta_output[t] * weights["2"][h]

\* C9: the four trajectory buffers hold one entry per environment step since the last
\* reset: they have the episode's number of steps at its end and are empty after it.
C9_BuffersHoldOneEntryPerStep ==
    /\ Len(episode_observations) = episode_steps
    /\ Len(episode_hidden_layer_values) = episode_steps
    /\ Len(episode_gradient_log_ps) = episode_steps
    /\ Len(episode_rewards) = episode_steps
    /\ pc = "episode_end" => episode_steps >= 1

\* A second episode has ended after two steps.
C9_Witness ==
    /\ pc = "episode_end"
    /\ episode_number >= 1
    /\ episode_steps = 2
    /\ Len(episode_rewards) = 2

StrictlyBetween(old, new, target) ==
    \/ old < new /\ new < target
    \/ target < new /\ new < old

\* expectation_g_squared is zero at the start, is what the last update left, and every
\* update starts from what the update before it left.
ExpectationPersists ==
    /\ expectation_g_squared = IF update_log = <<>> THEN ZeroLayers ELSE Last(update_log).after
    /\ \A k \in DOMAIN update_log :
          update_log[k].before = IF k = 1 THEN ZeroLayers ELSE update_log[k - 1].after

\* C10 as stated: on every update the new expectation_g_squared of every element lies
\* strictly between its prior value and g^2; it is never reset and changes at updates only.
C10_ExpectationStrictlyBetween ==
    /\ ExpectationPersists
    /\ \A k \in DOMAIN update_log :
          \A x \in ElementTriples(update_log[k].before, update_log[k].after, update_log[k].g) :
              StrictlyBetween(x[1], x[2], GSquared(x[3]))

\* C10, amended: strictly between where the prior value and g^2 differ, and equal to both
\* where they are equal.
C10_ExpectationBetweenUnlessEqual ==
    /\ ExpectationPersists
    /\ \A k \in DOMAIN update_log :
          \A x \in ElementTriples(update_log[k].before, update_log[k].after, update_log[k].g) :
              /\ x[1] # GSquared(x[3]) => StrictlyBetween(x[1], x[2], GSquared(x[3]))
              /\ x[1] = GSquared(x[3]) => x[2] = x[1]

\* A second update has moved a nonzero expectation_g_squared, left by the first, toward
\* the g^2 of its batch.
C10_Witness ==
    /\ Len(update_log) = 2
    /\ \E x \in ElementTriples(update_log[2].before, update_log[2].after, update_log[2].g) :
          x[1] > 0 /\ x[1] # GSquared(x[3]) /\ x[2] # x[1]
    /\ \E x \in ElementTriples(update_log[1].before, update_log[1].after, update_log[1].g) :
          x[1] = 0 /\ x[3] # 0 /\ x[2] > 0
====
